---- MODULE Spec2Model ----
(***************************************************************************)
(* A model of scripts/generate_blog.py: one invocation of generate_blog()  *)
(* reads a credential, an instructions file and a template page, asks a    *)
(* text-generation backend for a post, and then mutates three artifacts in *)
(* the site directory: blog/<slug>.html, blogs.json and sitemap.xml.       *)
(*                                                                         *)
(* Texts are sequences of tokens.  A token is a pair <<kind, value>>; the  *)
(* substrings the script searches for are tokens of their own, so that     *)
(* str.split, str.replace, re.sub and the "in" test are computed on the    *)
(* token sequence exactly as Python computes them on the characters.       *)
(***************************************************************************)
EXTENDS Integers, Sequences, FiniteSets, TLC

VARIABLES
    apiKey,        \* GEMINI_API_KEY is set and non-empty
    promptFile,    \* prompt.txt exists
    templateFile,  \* the template page: [exists, text]
    blogDir,       \* the directory blog/ exists (a page can be created in it)
    backend,       \* the texts the text-generation backend may answer with
    pages,         \* the files of blog/ the runs wrote: file name -> page
    blogsJson,     \* blogs.json: [exists, json, items]
    sitemapFile,   \* sitemap.xml: [exists, text]
    pc,            \* where each invocation stands
    frame,         \* the local variables of each invocation of generate_blog
    printed,       \* what each invocation printed
    raised,        \* the exception that left generate_blog, if any
    before,        \* the three artifacts as they were when the invocation began
    runs           \* number of invocations started

env   == <<apiKey, promptFile, templateFile, blogDir, backend>>
files == <<pages, blogsJson, sitemapFile>>
vars  == <<apiKey, promptFile, templateFile, blogDir, backend, pages, blogsJson,
           sitemapFile, pc, frame, printed, raised, before, runs>>

(***************************************************************************)
(* Bounds                                                                  *)
(***************************************************************************)
\* invocations per behaviour
MaxRuns == 2
\* characters of the repeated unit of a generated body (reading-time checks)
MaxUnitLen == 3
\* a generated body is its unit repeated RepeatStep, 2*RepeatStep, ... times
RepeatStep == 50
MaxRepeat == 10

\* the processes that may invoke the script against the same site directory
Procs == {"A", "B"}

(***************************************************************************)
(* Tokens and texts                                                        *)
(***************************************************************************)
\* '<section class="about">'
SectionAbout == <<"section_about", "">>
\* '</ul>\n            </div>\n        </div>\n    </section>'
RelatedEnd == <<"related_end", "">>
\* '\n        <div class="about-content">'
AboutContent == <<"about_content", "">>
\* '\n            <div class="article-body">\n <h3>Related articles</h3>\n <ul>\n'
RelatedOpen == <<"related_open", "">>
\* '<title>v</title>', '<meta name="title" content="v">', '<meta name="description" content="v">'
TitleTag(v) == <<"title", v>>
MetaTitle(v) == <<"meta_title", v>>
MetaDescription(v) == <<"meta_description", v>>
Text(v) == <<"text", v>>
\* sitemap.xml
UrlsetClose == <<"urlset_close", "">>
UrlOpen == <<"url_open", "">>
UrlClose == <<"url_close", "">>
Loc(v) == <<"loc", v>>
Lastmod(v) == <<"lastmod", v>>
Priority(v) == <<"priority", v>>
Newline == <<"text", "\n">>

\* str.split(sep): the pieces of text between the occurrences of sep
RECURSIVE Split(_, _)
Split(text, sep) ==
    IF \E i \in 1..Len(text) : text[i] = sep
    THEN LET i == CHOOSE k \in 1..Len(text) :
                      text[k] = sep /\ \A j \in 1..(k - 1) : text[j] # sep
         IN <<SubSeq(text, 1, i - 1)>> \o Split(SubSeq(text, i + 1, Len(text)), sep)
    ELSE <<text>>

\* str.replace(old, new): every occurrence of the token old becomes the text new
RECURSIVE Replace(_, _, _)
Replace(text, old, new) ==
    IF text = <<>> THEN <<>>
    ELSE (IF Head(text) = old THEN new ELSE <<Head(text)>>)
         \o Replace(Tail(text), old, new)

\* the "in" test of a substring
Contains(text, tok) == \E i \in 1..Len(text) : text[i] = tok

\* number of occurrences of a token
Count(text, tok) == Cardinality({i \in 1..Len(text) : text[i] = tok})

\* re.sub of an element pattern: every element of that kind gets the new value
SubKind(text, kind, v) ==
    [i \in 1..Len(text) |-> IF text[i][1] = kind THEN <<kind, v>> ELSE text[i]]

(***************************************************************************)
(* The generated post                                                      *)
(***************************************************************************)
Slugs == {"5-tips", "ber-months"}
\* f"{data['slug']}.html"
Html(slug) == CASE slug = "5-tips" -> "5-tips.html"
                [] slug = "ber-months" -> "ber-months.html"
FileNames == {Html(s) : s \in Slugs}

RequiredKeys == {"title", "description", "content_html", "category", "excerpt", "slug"}
OptionalKeys == {"social_poster_text", "social_caption"}

\* characters by class: "w" matches \w, "s" is whitespace, "p" is anything else.
\* A body is a unit of characters repeated n times (as in '<p>word ' * 250).
Body(unit, n) == [unit |-> unit, n |-> n]
BodyLen(b) == Len(b.unit) * b.n
CharAt(b, i) == b.unit[((i - 1) % Len(b.unit)) + 1]
\* '<p>w ' * 60
SampleBody == Body(<<"p", "w", "p", "w", "s">>, 60)

NoFields == [k \in {} |-> ""]
Fields(keys, slug, body) ==
    [k \in keys |-> CASE k = "slug" -> slug
                      [] k = "content_html" -> body
                      [] k = "title" -> "5 Tips"
                      [] k = "description" -> "Grow repeat sales"
                      [] k = "category" -> "Business Strategy"
                      [] k = "excerpt" -> "Five tips"
                      [] k = "social_poster_text" -> "poster"
                      [] k = "social_caption" -> "#StampCircle"]

\* response.text, by what json.loads makes of it
NoResponse == [json |-> "none", fields |-> NoFields]
NotJson == [json |-> "invalid", fields |-> NoFields]
JsonArray == [json |-> "array", fields |-> NoFields]
JsonObject(f) == [json |-> "object", fields |-> f]

\* what the backend may answer: text that is no JSON, JSON that is no object, a
\* complete object for either slug, and objects that lack the optional keys or
\* one required key
AllKeys == RequiredKeys \cup OptionalKeys
Responses ==
    {NotJson, JsonArray}
        \cup {JsonObject(Fields(AllKeys, s, SampleBody)) : s \in Slugs}
        \cup {JsonObject(Fields(RequiredKeys, "5-tips", SampleBody))}
        \cup {JsonObject(Fields(AllKeys \ {k}, "5-tips", SampleBody)) : k \in RequiredKeys}


(***************************************************************************)
(* Reading time (lines 80-82)                                              *)
(***************************************************************************)
WordsPerMinute == 200

\* the whitespace-delimited tokens of a text (what text.split() would count)
TokenCount(b) ==
    Cardinality({i \in 1..BodyLen(b) :
                    CharAt(b, i) # "s" /\ (i = 1 \/ CharAt(b, i - 1) = "s")})

\* the word count taken as the whitespace-delimited tokens
WordCount_Tokens(b) == TokenCount(b)

\* len(re.findall(r'\w+', text)): the maximal runs of word characters
WordCount(b) ==
    Cardinality({i \in 1..BodyLen(b) :
                    CharAt(b, i) = "w" /\ (i = 1 \/ CharAt(b, i - 1) # "w")})

\* Python 3 round(n / d) of non-negative integers: to nearest, a tie to even
RoundDiv(n, d) ==
    LET q == n \div d
        r == n % d
    IN IF 2 * r < d THEN q
       ELSE IF 2 * r > d THEN q + 1
       ELSE IF q % 2 = 0 THEN q ELSE q + 1

Max(a, b) == IF a >= b THEN a ELSE b

\* max(1, round(word_count / 200))
ReadTime(word_count) == Max(1, RoundDiv(word_count, WordsPerMinute))

(***************************************************************************)
(* Files                                                                   *)
(***************************************************************************)
NoFile == [exists |-> FALSE, text |-> <<>>]
File(text) == [exists |-> TRUE, text |-> text]

\* blogs.json, by what json.load makes of it: json is "invalid" (not JSON),
\* "array" (items are its elements) or "object" (JSON, but not a list)
NoJsonFile == [exists |-> FALSE, json |-> "invalid", items |-> <<>>]
JsonFile(json, items) == [exists |-> TRUE, json |-> json, items |-> items]

NoPost == [title |-> "", href |-> "", category |-> "", excerpt |-> ""]
OldPost == [title |-> "Old post", href |-> "blog/old.html",
            category |-> "Coffee Shops", excerpt |-> "An older post"]
\* f"blog/{new_filename}"
Href(name) == CASE name = "5-tips.html" -> "blog/5-tips.html"
                [] name = "ber-months.html" -> "blog/ber-months.html"
\* f"https://stampcircle.com/blog/{new_filename}"
Url(name) == CASE name = "5-tips.html" -> "https://stampcircle.com/blog/5-tips.html"
               [] name = "ber-months.html" -> "https://stampcircle.com/blog/ber-months.html"

NoPages == [f \in {} |-> 0]
NoBody == Body(<<>>, 0)
NoPage == [header |-> <<>>, heading |-> "", read_time |-> 0, body |-> NoBody,
           poster |-> "", caption |-> "", footer |-> <<>>]

\* the template pages a site directory may hold
Templates ==
    { <<TitleTag("old"), MetaTitle("old"), MetaDescription("old"), SectionAbout,
        Text("article"), RelatedEnd, Text("footer")>>,
      <<TitleTag("old"), SectionAbout, Text("article"), RelatedEnd, Text("more"),
        RelatedEnd, Text("footer")>>,
      <<TitleTag("old"), SectionAbout, Text("article"), Text("footer")>>,
      <<TitleTag("old"), Text("article"), RelatedEnd, Text("footer")>>,
      <<TitleTag("old"), Text("article")>> }

\* the sitemaps a site directory may hold
Sitemaps ==
    { <<Text("urlset"), UrlOpen, Loc("https://stampcircle.com/"), UrlClose, Newline,
        UrlsetClose, Newline>>,
      <<Text("urlset"), Text("<!--"), UrlsetClose, Text("-->"), Newline, UrlsetClose>>,
      <<Text("urlset"), UrlOpen, Loc("https://stampcircle.com/"), UrlClose>>,
      <<>> }

\* datetime.now().strftime('%Y-%m-%d')
Dates == {"2026-11-02"}

(***************************************************************************)
(* The invocation                                                          *)
(***************************************************************************)
Frame0 ==
    [prompt_instructions |-> "", template_content |-> <<>>,
     header_template |-> <<>>, footer_template |-> <<>>,
     response |-> NoResponse, data |-> NoResponse, new_filename |-> "",
     word_count |-> 0, read_time |-> 0, page_html |-> NoPage, new_post |-> NoPost,
     posts |-> NoJsonFile, sitemap_content |-> <<>>, new_url |-> <<>>]

NoException == <<"", "">>

TypeOK ==
    /\ apiKey \in BOOLEAN /\ promptFile \in BOOLEAN /\ blogDir \in BOOLEAN
    /\ DOMAIN pages \subseteq FileNames
    /\ pc \in [Procs -> {"idle", "check_key", "read_prompt", "read_template",
                         "extract_layout", "request", "parse", "assemble",
                         "write_page", "new_post", "read_index", "write_index",
                         "read_sitemap", "update_sitemap", "done", "crashed"}]
    /\ runs \in 0..(MaxRuns + 1)

Init ==
    /\ apiKey \in BOOLEAN
    /\ promptFile \in BOOLEAN
    /\ templateFile \in {NoFile} \cup {File(t) : t \in Templates}
    /\ blogDir \in BOOLEAN
    /\ backend = Responses
    /\ pages = NoPages
    /\ blogsJson \in {NoJsonFile, JsonFile("invalid", <<>>), JsonFile("object", <<>>),
                      JsonFile("array", <<>>), JsonFile("array", <<OldPost>>)}
    /\ sitemapFile \in {NoFile} \cup {File(t) : t \in Sitemaps}
    /\ pc = [p \in Procs |-> "idle"]
    /\ frame = [p \in Procs |-> Frame0]
    /\ printed = [p \in Procs |-> <<>>]
    /\ raised = [p \in Procs |-> NoException]
    /\ before = [p \in Procs |-> [pages |-> pages, index |-> blogsJson,
                                  sitemap |-> sitemapFile]]
    /\ runs = 0

\* the invocation goes on at label l with locals f, having printed out
Goto(p, l, f, out) ==
    /\ pc' = [pc EXCEPT ![p] = l]
    /\ frame' = [frame EXCEPT ![p] = f]
    /\ printed' = [printed EXCEPT ![p] = @ \o out]
    /\ UNCHANGED raised

\* "return": the invocation ends normally
Return(p, out) == Goto(p, "done", frame[p], out)

\* an exception nothing catches leaves generate_blog
Raise(p, type, arg) ==
    /\ pc' = [pc EXCEPT ![p] = "crashed"]
    /\ raised' = [raised EXCEPT ![p] = <<type, arg>>]
    /\ UNCHANGED <<frame, printed>>

\* python generate_blog.py
Start(p) ==
    /\ pc[p] \in {"idle", "done", "crashed"}
    /\ runs < MaxRuns
    /\ runs' = runs + 1
    /\ pc' = [pc EXCEPT ![p] = "check_key"]
    /\ frame' = [frame EXCEPT ![p] = Frame0]
    /\ printed' = [printed EXCEPT ![p] = <<>>]
    /\ raised' = [raised EXCEPT ![p] = NoException]
    /\ before' = [before EXCEPT ![p] = [pages |-> pages, index |-> blogsJson,
                                        sitemap |-> sitemapFile]]
    /\ UNCHANGED <<env, files>>

\* the check of the credential without its return
CheckKey_NoReturn(p) ==
    /\ pc[p] = "check_key"
    /\ Goto(p, "read_prompt", frame[p],
            IF ~apiKey THEN <<"Error: GEMINI_API_KEY not found.">> ELSE <<>>)
    /\ UNCHANGED <<env, files, before, runs>>

\* lines 18-23
CheckKey(p) ==
    /\ pc[p] = "check_key"
    /\ IF ~apiKey
       THEN Return(p, <<"Error: GEMINI_API_KEY not found.">>)
       ELSE Goto(p, "read_prompt", frame[p], <<>>)
    /\ UNCHANGED <<env, files, before, runs>>

\* lines 26-27
ReadPrompt(p) ==
    /\ pc[p] = "read_prompt"
    /\ IF promptFile
       THEN Goto(p, "read_template",
                 [frame[p] EXCEPT !.prompt_instructions = "instructions"], <<>>)
       ELSE Raise(p, "FileNotFoundError", "prompt.txt")
    /\ UNCHANGED <<env, files, before, runs>>

\* lines 29-30
ReadTemplate(p) ==
    /\ pc[p] = "read_template"
    /\ IF templateFile.exists
       THEN Goto(p, "extract_layout",
                 [frame[p] EXCEPT !.template_content = templateFile.text], <<>>)
       ELSE Raise(p, "FileNotFoundError", "template")
    /\ UNCHANGED <<env, files, before, runs>>

\* lines 33-37
ExtractLayout(p) ==
    /\ pc[p] = "extract_layout"
    /\ LET header_parts == Split(frame[p].template_content, SectionAbout)
           footer_parts == Split(frame[p].template_content, RelatedEnd)
       IN IF Len(footer_parts) < 2
          THEN Raise(p, "IndexError", "footer_parts[1]")
          ELSE Goto(p, "request",
                    [frame[p] EXCEPT
                       !.header_template = header_parts[1] \o <<SectionAbout, AboutContent>>,
                       !.footer_template = <<RelatedOpen>> \o footer_parts[2]], <<>>)
    /\ UNCHANGED <<env, files, before, runs>>

\* lines 39-67: the backend answers with some text, or the call fails
Request(p) ==
    /\ pc[p] = "request"
    /\ \E r \in backend \cup {NoResponse} :
          IF r = NoResponse
          THEN Raise(p, "APIError", "generate_content")
          ELSE Goto(p, "parse", [frame[p] EXCEPT !.response = r], <<>>)
    /\ UNCHANGED <<env, files, before, runs>>

\* lines 69-74
Parse(p) ==
    /\ pc[p] = "parse"
    /\ IF frame[p].response.json = "invalid"
       THEN Return(p, <<"Failed to parse AI response", "Response text">>)
       ELSE Goto(p, "assemble", [frame[p] EXCEPT !.data = frame[p].response], <<>>)
    /\ UNCHANGED <<env, files, before, runs>>

\* data.get(key, '')
Get(data, key) == IF key \in DOMAIN data.fields THEN data.fields[key] ELSE ""

\* lines 84-102, once every key the page needs is there
PageHtml(header_template, footer_template, data, read_time) ==
    [header |-> SubKind(SubKind(SubKind(header_template,
                   "title", data.fields["title"]),
                   "meta_title", data.fields["title"]),
                   "meta_description", data.fields["description"]),
     heading |-> data.fields["title"],
     read_time |-> read_time,
     body |-> data.fields["content_html"],
     poster |-> Get(data, "social_poster_text"),
     caption |-> Get(data, "social_caption"),
     footer |-> footer_template]

\* the first key among ks, in the order the code reads them, that data lacks
FirstMissing(data, ks) ==
    IF \E i \in 1..Len(ks) : ks[i] \notin DOMAIN data.fields
    THEN LET i == CHOOSE k \in 1..Len(ks) :
                     /\ ks[k] \notin DOMAIN data.fields
                     /\ \A j \in 1..(k - 1) : ks[j] \in DOMAIN data.fields
         IN ks[i]
    ELSE ""

\* lines 77-102
Assemble(p) ==
    /\ pc[p] = "assemble"
    /\ LET data == frame[p].data
           missing == FirstMissing(data, <<"slug", "content_html", "title", "description">>)
       IN IF data.json # "object"
          THEN Raise(p, "TypeError", "data['slug']")
          ELSE IF missing # ""
          THEN Raise(p, "KeyError", missing)
          ELSE LET word_count == WordCount(data.fields["content_html"])
                   read_time == ReadTime(word_count)
               IN Goto(p, "write_page",
                       [frame[p] EXCEPT
                          !.new_filename = Html(data.fields["slug"]),
                          !.word_count = word_count,
                          !.read_time = read_time,
                          !.page_html = PageHtml(frame[p].header_template,
                                                 frame[p].footer_template,
                                                 data, read_time)], <<>>)
    /\ UNCHANGED <<env, files, before, runs>>

\* open(path, 'w') and write: the file holds exactly the text written
WriteFile(dir, name, text) ==
    [f \in DOMAIN dir \cup {name} |-> IF f = name THEN text ELSE dir[f]]

\* lines 104-106
WritePage(p) ==
    /\ pc[p] = "write_page"
    /\ IF blogDir
       THEN /\ pages' = WriteFile(pages, frame[p].new_filename, frame[p].page_html)
            /\ Goto(p, "new_post", frame[p], <<"Created new blog">>)
       ELSE /\ Raise(p, "FileNotFoundError", "blog/")
            /\ UNCHANGED pages
    /\ UNCHANGED <<env, blogsJson, sitemapFile, before, runs>>

\* lines 109-114
NewPost(p) ==
    /\ pc[p] = "new_post"
    /\ LET data == frame[p].data
           missing == FirstMissing(data, <<"title", "category", "excerpt">>)
       IN IF missing # ""
          THEN Raise(p, "KeyError", missing)
          ELSE Goto(p, "read_index",
                    [frame[p] EXCEPT !.new_post =
                        [title |-> data.fields["title"],
                         href |-> Href(frame[p].new_filename),
                         category |-> data.fields["category"],
                         excerpt |-> data.fields["excerpt"]]], <<>>)
    /\ UNCHANGED <<env, files, before, runs>>

\* lines 116-120: json.load of blogs.json, [] when that raises
LoadPosts(file) ==
    IF file.exists /\ file.json # "invalid"
    THEN [exists |-> TRUE, json |-> file.json, items |-> file.items]
    ELSE [exists |-> TRUE, json |-> "array", items |-> <<>>]

ReadIndex(p) ==
    /\ pc[p] = "read_index"
    /\ Goto(p, "write_index", [frame[p] EXCEPT !.posts = LoadPosts(blogsJson)], <<>>)
    /\ UNCHANGED <<env, files, before, runs>>

\* posts.append(new_post) in place of the insert
Insert0_Append(items, new_post) == items \o <<new_post>>

\* line 122: posts.insert(0, new_post)
Insert0(items, new_post) == <<new_post>> \o items

\* the index update under a lock: the list is read again when it is written
WriteIndex_Reread(p) ==
    /\ pc[p] = "write_index"
    /\ IF LoadPosts(blogsJson).json # "array"
       THEN /\ Raise(p, "AttributeError", "insert")
            /\ UNCHANGED blogsJson
       ELSE LET posts == Insert0(LoadPosts(blogsJson).items, frame[p].new_post)
            IN /\ blogsJson' = JsonFile("array", posts)
               /\ Goto(p, "read_sitemap",
                       [frame[p] EXCEPT !.posts = JsonFile("array", posts)],
                       <<"Updated blogs.json">>)
    /\ UNCHANGED <<env, pages, sitemapFile, before, runs>>

\* lines 122-126
WriteIndex(p) ==
    /\ pc[p] = "write_index"
    /\ IF frame[p].posts.json # "array"
       THEN /\ Raise(p, "AttributeError", "insert")
            /\ UNCHANGED blogsJson
       ELSE LET posts == Insert0(frame[p].posts.items, frame[p].new_post)
            IN /\ blogsJson' = JsonFile("array", posts)
               /\ Goto(p, "read_sitemap",
                       [frame[p] EXCEPT !.posts = JsonFile("array", posts)],
                       <<"Updated blogs.json">>)
    /\ UNCHANGED <<env, pages, sitemapFile, before, runs>>

\* lines 132-136
NewUrl(new_filename, today) ==
    <<UrlOpen, Loc(Url(new_filename)), Lastmod(today), Priority("0.80"), UrlClose>>

\* the sitemap read with a compensating rollback of the page and the index
ReadSitemap_Rollback(p) ==
    /\ pc[p] = "read_sitemap"
    /\ IF sitemapFile.exists
       THEN /\ \E today \in Dates :
                  Goto(p, "update_sitemap",
                       [frame[p] EXCEPT !.sitemap_content = sitemapFile.text,
                                        !.new_url = NewUrl(frame[p].new_filename, today)],
                       <<>>)
            /\ UNCHANGED files
       ELSE /\ Raise(p, "FileNotFoundError", "sitemap.xml")
            /\ pages' = before[p].pages
            /\ blogsJson' = before[p].index
            /\ UNCHANGED sitemapFile
    /\ UNCHANGED <<env, before, runs>>

\* lines 129-136
ReadSitemap(p) ==
    /\ pc[p] = "read_sitemap"
    /\ IF sitemapFile.exists
       THEN \E today \in Dates :
               Goto(p, "update_sitemap",
                    [frame[p] EXCEPT !.sitemap_content = sitemapFile.text,
                                     !.new_url = NewUrl(frame[p].new_filename, today)],
                    <<>>)
       ELSE Raise(p, "FileNotFoundError", "sitemap.xml")
    /\ UNCHANGED <<env, files, before, runs>>

\* line 139
UpdatedSitemap(sitemap_content, new_url) ==
    Replace(sitemap_content, UrlsetClose, new_url \o <<Newline, UrlsetClose>>)

\* the sitemap update that treats a sitemap without the closing tag as an error
UpdateSitemap_Strict(p) ==
    /\ pc[p] = "update_sitemap"
    /\ IF Contains(frame[p].sitemap_content, UrlsetClose)
       THEN /\ sitemapFile' = File(UpdatedSitemap(frame[p].sitemap_content,
                                                  frame[p].new_url))
            /\ Return(p, <<"Updated sitemap.xml">>)
       ELSE /\ Raise(p, "ValueError", "</urlset>")
            /\ UNCHANGED sitemapFile
    /\ UNCHANGED <<env, pages, blogsJson, before, runs>>

\* lines 138-142
UpdateSitemap(p) ==
    /\ pc[p] = "update_sitemap"
    /\ IF Contains(frame[p].sitemap_content, UrlsetClose)
       THEN /\ sitemapFile' = File(UpdatedSitemap(frame[p].sitemap_content,
                                                  frame[p].new_url))
            /\ Return(p, <<"Updated sitemap.xml">>)
       ELSE /\ Return(p, <<>>)
            /\ UNCHANGED sitemapFile
    /\ UNCHANGED <<env, pages, blogsJson, before, runs>>

Step(p) ==
    \/ Start(p)
    \/ CheckKey(p)
    \/ ReadPrompt(p)
    \/ ReadTemplate(p)
    \/ ExtractLayout(p)
    \/ Request(p)
    \/ Parse(p)
    \/ Assemble(p)
    \/ WritePage(p)
    \/ NewPost(p)
    \/ ReadIndex(p)
    \/ WriteIndex(p)
    \/ ReadSitemap(p)
    \/ UpdateSitemap(p)

\* one invocation at a time, as the design assumes
Next == Step("A")

Spec == Init /\ [][Next]_vars

\* The reading time: the site directory is in order and the backend answers with
\* one complete post, whose body is any unit of at most MaxUnitLen characters
\* repeated up to MaxRepeat * RepeatStep times.
Units == UNION {[1..n -> {"w", "s", "p"}] : n \in 1..MaxUnitLen}
Bodies == {Body(u, k * RepeatStep) : u \in Units, k \in 1..MaxRepeat}

InitReadTime ==
    /\ apiKey = TRUE /\ promptFile = TRUE /\ blogDir = TRUE
    /\ templateFile \in {File(t) : t \in {x \in Templates :
                              Count(x, SectionAbout) = 1 /\ Count(x, RelatedEnd) = 1}}
    /\ backend \in {{JsonObject(Fields(AllKeys, "5-tips", b))} : b \in Bodies}
    /\ pages = NoPages
    /\ blogsJson = JsonFile("array", <<>>)
    /\ sitemapFile \in {File(t) : t \in {x \in Sitemaps : Count(x, UrlsetClose) = 1}}
    /\ pc = [p \in Procs |-> "idle"]
    /\ frame = [p \in Procs |-> Frame0]
    /\ printed = [p \in Procs |-> <<>>]
    /\ raised = [p \in Procs |-> NoException]
    /\ before = [p \in Procs |-> [pages |-> pages, index |-> blogsJson,
                                  sitemap |-> sitemapFile]]
    /\ runs = 0

SpecReadTime == InitReadTime /\ [][Next]_vars

\* invocations that may overlap: nothing locks the three files.  The site
\* directory is in order, so that an invocation can run to its end.
InitConcurrent ==
    /\ Init
    /\ apiKey /\ promptFile /\ blogDir
    /\ templateFile.exists /\ Count(templateFile.text, SectionAbout) = 1
    /\ Count(templateFile.text, RelatedEnd) = 1
    /\ blogsJson.exists /\ blogsJson.json = "array"
    /\ sitemapFile.exists /\ Count(sitemapFile.text, UrlsetClose) = 1

NextConcurrent == \E p \in Procs : Step(p)

SpecConcurrent == InitConcurrent /\ [][NextConcurrent]_vars

(***************************************************************************)
(* Properties                                                              *)
(***************************************************************************)
Said(p, msg) == \E i \in 1..Len(printed[p]) : printed[p][i] = msg

\* none of the three artifacts differs from what it was when p began
Untouched(p) ==
    /\ pages = before[p].pages
    /\ blogsJson = before[p].index
    /\ sitemapFile = before[p].sitemap

\* blog/<slug>.html holds the page p assembled
PageInPlace(p) ==
    /\ frame[p].new_filename \in DOMAIN pages
    /\ pages[frame[p].new_filename] = frame[p].page_html

\* the list a run starts from: the items of a JSON array, else nothing
Prior(file) == IF file.exists /\ file.json = "array" THEN file.items ELSE <<>>

\* blogs.json is the prior list with p's entry put in front
EntryInPlace(p) ==
    /\ blogsJson.exists /\ blogsJson.json = "array"
    /\ blogsJson.items = <<frame[p].new_post>> \o Prior(before[p].index)

MissingOrMalformed(file) == ~file.exists \/ file.json = "invalid"

\* p took the step that leaves label l
Leaves(p, l) == pc[p] = l /\ pc'[p] # l

\* the backend's answer is no JSON object or lacks a required field
Unusable(r) == r.json # "object" \/ ~(RequiredKeys \subseteq DOMAIN r.fields)

\* C1: when the backend's answer is not parseable JSON or lacks one of the
\* required fields, the run leaves the page files, blogs.json and sitemap.xml
\* as they were.
C1_UnusableResponseMutatesNothing ==
    \A p \in Procs :
        (frame[p].response # NoResponse /\ Unusable(frame[p].response))
            => Untouched(p)

\* C2: when the template lacks the '<section class="about">' marker or the
\* related-articles closing sequence, layout extraction fails and the run
\* writes no file.
C2_MissingMarkerFailsExtraction ==
    \A p \in Procs :
        (/\ frame[p].template_content # <<>>
         /\ \/ ~Contains(frame[p].template_content, SectionAbout)
            \/ ~Contains(frame[p].template_content, RelatedEnd))
            => /\ pc[p] \in {"extract_layout", "crashed"}
               /\ Untouched(p)

\* C3: with the credential, the instructions file or the template file
\* missing, a run never gets to the backend call and changes none of the three
\* artifacts.
C3_PreconditionFailureStopsEarly ==
    \A p \in Procs :
        (pc[p] # "idle" /\ (~apiKey \/ ~promptFile \/ ~templateFile.exists))
            => /\ pc[p] \in {"check_key", "read_prompt", "read_template",
                             "done", "crashed"}
               /\ frame[p].response = NoResponse
               /\ Untouched(p)

C3_Witness ==
    /\ apiKey /\ promptFile /\ ~templateFile.exists
    /\ pc["A"] = "crashed"
    /\ raised["A"] = <<"FileNotFoundError", "template">>

\* C4: every index update puts the new entry at index 0, makes the list one
\* longer and keeps every earlier entry, in order, one place further; a missing
\* or unparseable blogs.json counts as the empty list and stops neither the
\* read nor the write.
C4_IndexPrepend ==
    [][\A p \in Procs :
          /\ (Leaves(p, "read_index") /\ MissingOrMalformed(blogsJson))
                => pc'[p] = "write_index" /\ frame'[p].posts.items = <<>>
          /\ (Leaves(p, "write_index") /\ (MissingOrMalformed(blogsJson)
                                              \/ blogsJson.json = "array"))
                => /\ pc'[p] = "read_sitemap"
                   /\ blogsJson'.exists /\ blogsJson'.json = "array"
                   /\ Len(blogsJson'.items) = Len(Prior(blogsJson)) + 1
                   /\ blogsJson'.items[1] = frame[p].new_post
                   /\ \A i \in 1..Len(Prior(blogsJson)) :
                         blogsJson'.items[i + 1] = Prior(blogsJson)[i]]_vars

C4_Witness ==
    /\ runs = 2
    /\ pc["A"] = "done" /\ Said("A", "Updated blogs.json")
    /\ Len(blogsJson.items) = 2
    /\ blogsJson.items[1] = frame["A"].new_post
    /\ blogsJson.items[2] # blogsJson.items[1]
    /\ before["A"].index.items = <<blogsJson.items[2]>>

\* C5: when the sitemap holds '</urlset>', the update adds exactly one <url>
\* block, right before '</urlset>', and leaves the rest of the text as it was.
C5_OneUrlBlockAdded ==
    [][\A p \in Procs :
          (Leaves(p, "update_sitemap") /\ Contains(sitemapFile.text, UrlsetClose))
             => LET old == sitemapFile.text
                    new == sitemapFile'.text
                IN /\ Count(new, UrlOpen) = Count(old, UrlOpen) + 1
                   /\ \E i \in 1..Len(old) :
                         /\ old[i] = UrlsetClose
                         /\ new = SubSeq(old, 1, i - 1) \o frame[p].new_url
                                     \o <<Newline>> \o SubSeq(old, i, Len(old))]_vars

\* C6: when the sitemap read holds no '</urlset>', the run does not fail:
\* sitemap.xml stays as it was, the page and the index entry stay in place.
C6_SitemapStepSkipped ==
    \A p \in Procs :
        (frame[p].new_url # <<>> /\ ~Contains(frame[p].sitemap_content, UrlsetClose))
            => /\ pc[p] \in {"update_sitemap", "done"}
               /\ raised[p] = NoException
               /\ sitemapFile = before[p].sitemap
               /\ PageInPlace(p)
               /\ EntryInPlace(p)

C6_Witness ==
    /\ pc["A"] = "done"
    /\ frame["A"].new_url # <<>>
    /\ ~Contains(frame["A"].sitemap_content, UrlsetClose)
    /\ Said("A", "Updated blogs.json") /\ ~Said("A", "Updated sitemap.xml")

\* n / d rounded to the nearest integer, a tie to the even one, stated by the
\* distance to n: r is the rounding iff |d * r - n| <= d / 2, and even on a tie
IsRounding(r, n, d) ==
    LET diff == IF d * r >= n THEN d * r - n ELSE n - d * r
    IN 2 * diff <= d /\ (2 * diff = d => r % 2 = 0)

\* the maximal runs of word characters, counted by where they end
WordRuns(b) ==
    Cardinality({i \in 1..BodyLen(b) :
                    CharAt(b, i) = "w" /\ (i = BodyLen(b) \/ CharAt(b, i + 1) # "w")})

\* C7 (as stated): the reading time on the page is max(1, round(n / 200)) for n
\* the number of whitespace-delimited tokens of content_html.
C7_ReadTimeOfTokens ==
    \A p \in Procs :
        pc[p] = "new_post"
            => pages[frame[p].new_filename].read_time
                  = Max(1, RoundDiv(TokenCount(pages[frame[p].new_filename].body),
                                    WordsPerMinute))

\* C7 (amended): the reading time on the page is max(1, round(n / 200)) for n
\* the number of maximal runs of word characters of content_html, round going
\* to the nearest integer and to the even one on a tie; it is never below 1;
\* 400 plain words give 2 and 50 plain words give 1.
C7_ReadTimeOfWordRuns ==
    \A p \in Procs :
        pc[p] = "new_post"
            => LET page == pages[frame[p].new_filename]
                   n == WordRuns(page.body)
               IN /\ page.read_time >= 1
                  /\ \/ IsRounding(page.read_time, n, WordsPerMinute)
                     \/ page.read_time = 1 /\ IsRounding(0, n, WordsPerMinute)
                  /\ page.body = Body(<<"w", "s">>, 400) => page.read_time = 2
                  /\ page.body = Body(<<"w", "s">>, 50) => page.read_time = 1

\* a page whose body has fewer whitespace-delimited tokens than word runs, and
\* a reading time that the tokens would not give
C7_Witness ==
    /\ pc["A"] = "new_post"
    /\ LET page == pages[frame["A"].new_filename]
       IN /\ page.body = Body(<<"w", "p">>, 300)
          /\ page.read_time = 2
          /\ TokenCount(page.body) = 1

\* C8: nothing orders the read and the write of one invocation against those
\* of another: an invocation writes back the list (the sitemap) it read with
\* its own entry added, whatever the file holds by then, so that an entry
\* another invocation wrote in between is gone.
C8_StaleWriteBack ==
    [][\A p \in Procs :
          /\ (Leaves(p, "write_index") /\ pc'[p] = "read_sitemap")
                => /\ blogsJson'.items = <<frame[p].new_post>> \o frame[p].posts.items
                   /\ \A q \in Procs \ {p} :
                         (/\ frame[q].new_post # frame[p].new_post
                          /\ \A i \in 1..Len(frame[p].posts.items) :
                                frame[p].posts.items[i] # frame[q].new_post)
                            => \A i \in 1..Len(blogsJson'.items) :
                                  blogsJson'.items[i] # frame[q].new_post
          /\ (Leaves(p, "update_sitemap") /\ Said(p, "Updated sitemap.xml")')
                => sitemapFile'.text
                      = Replace(frame[p].sitemap_content, UrlsetClose,
                                frame[p].new_url \o <<Newline, UrlsetClose>>)]_vars

\* both invocations ran to their end, and blogs.json and sitemap.xml each hold
\* the entry of only one of them
C8_LostUpdate ==
    /\ \A p \in Procs : pc[p] = "done" /\ Said(p, "Updated blogs.json")
                                      /\ Said(p, "Updated sitemap.xml")
    /\ frame["A"].new_filename # frame["B"].new_filename
    /\ \E p \in Procs :
          \A i \in 1..Len(blogsJson.items) : blogsJson.items[i] # frame[p].new_post
    /\ \E p \in Procs :
          ~Contains(sitemapFile.text, Loc(Url(frame[p].new_filename)))

\* C9: no failure of a run leaves generate_blog as an unhandled exception.
C9_NoUnhandledFault ==
    \A p \in Procs : pc[p] # "crashed"

\* C10: a run writes the page, then blogs.json, then sitemap.xml, and takes
\* nothing back: sitemap.xml is changed only once the run's entry is in
\* blogs.json, blogs.json only once the run's page is written, and a page or
\* an entry the run reported stays in place however the run ends.
C10_WriteOrderNoRollback ==
    \A p \in Procs :
        pc[p] # "idle"
            => /\ sitemapFile # before[p].sitemap => Said(p, "Updated blogs.json")
               /\ blogsJson # before[p].index => Said(p, "Created new blog")
               /\ pages # before[p].pages => Said(p, "Created new blog")
               /\ Said(p, "Updated blogs.json") => EntryInPlace(p)
               /\ Said(p, "Created new blog") => PageInPlace(p)
               /\ ~Said(p, "Created new blog") => Untouched(p)

\* the sitemap is missing: the run ends in an exception with the page and the
\* entry written
C10_Witness ==
    /\ pc["A"] = "crashed"
    /\ raised["A"] = <<"FileNotFoundError", "sitemap.xml">>
    /\ PageInPlace("A") /\ EntryInPlace("A")
    /\ pages # before["A"].pages /\ blogsJson # before["A"].index

====
